---- MODULE Spec2Model ----
(***************************************************************************)
(* Model of the trading core: the supervised worker loop (Trading.run),    *)
(* the locked notification dispatch (Trading.notify) and the signed        *)
(* request pipeline (APICall.call / APIPrivateCall.call).                  *)
(*                                                                         *)
(* Four specifications share the module, one per component:                *)
(*   SpecRun / FairSpecRun  the supervisor loop and the workers' lifecycle *)
(*   SpecNotify             worker threads delivering through notify       *)
(*   SpecCall               one executor issuing API calls                 *)
(*   SpecThreads            threads issuing private calls concurrently     *)
(* Each leaves the other components' variables at their initial values.    *)
(***************************************************************************)
EXTENDS Integers, Sequences, FiniteSets, TLC

\* ------------------------------------------------------------------ bounds
\* Number of entries of self.workers (the loops of run() are generic in it).
NumWorkers == 2
\* How many KeyboardInterrupts the operator sends during one run.
MaxInterrupts == 2

Workers == 1..NumWorkers

\* self.workers, the list run() iterates over (run.py line 27).
workers == [i \in 1..NumWorkers |-> i]

VARIABLES
    \* --- Trading.run (supervisor thread)
    pc,                     \* line of run() the supervisor is about to execute
    t,                      \* index of the loop variable t in self.workers
    t2,                     \* index of the loop variable t2 in self.workers
    keyboard_trigger_stop,  \* the local flag of run()
    interrupts,             \* KeyboardInterrupts delivered so far
    errorLogged,            \* logger.error('... is dead. Program will exit.') has run
    \* --- workers as seen by the supervisor
    alive,                  \* worker -> "running" | "dead"  (is_alive())
    stopRequested,          \* worker -> terminate() has been called on it
    joined,                 \* workers on which a join() has returned
    \* --- Trading.notify (worker threads)
    lock,                   \* self.lock is held
    npc,                    \* thread -> line of notify / price_update_notification
    observable_type,        \* thread -> type(observable) of the current delivery
    pending,                \* thread -> exception in flight inside notify, or "none"
    thrown,                 \* thread -> exception first raised in the current delivery
    outcome,                \* thread -> how the last notify ended, as the caller saw it
    inflight,               \* threads with an Exchange Facade request on the wire
    \* --- the request pipeline (one executor, one calling thread)
    client_id,              \* self.client_id
    api_key,                \* self.api_key
    api_secret,             \* self.api_secret
    clock,                  \* time.time(), in ticks of 1/TicksPerMicro microsecond
    calls,                  \* calls started so far
    nonces,                 \* the nonces of the private calls, in call order
    cpc,                    \* "idle" | "waiting" (request on the wire) | "L57"
    endpoint,               \* the call class of the current call
    request,                \* the HTTP request of the current call
    sent,                   \* HTTP requests issued by the current call
    response,               \* r.json() of the current call
    processed,              \* payloads _process_response was invoked on, this call
    result,                 \* how the last call ended: returned value or exception
    args,                   \* **params as the caller passed them to the current call
    transport,              \* the round trip of the current call: "none" | "pending" |
                            \* "ok" | the exception requests or r.json() raised
    checked,                \* executions of the API-error test (line 57), this call
    \* --- threads sharing the credentials of one executor
    tpc,                    \* thread -> "idle" | "L80" (nonce drawn) | "waiting"
    tcall,                  \* thread -> class and **params of its current private call
    tnonce,                 \* thread -> the local nonce of its current private call
    treq                    \* thread -> its request on the wire, or NoRequest

runVars == <<pc, t, t2, keyboard_trigger_stop, interrupts, errorLogged,
             alive, stopRequested, joined>>
notifyVars == <<lock, npc, observable_type, pending, thrown, outcome, inflight>>
callVars == <<client_id, api_key, api_secret, clock, calls, nonces, cpc, endpoint,
              request, sent, response, processed, result, args, transport, checked>>
threadVars == <<tpc, tcall, tnonce, treq>>
nonRunVars == <<notifyVars, callVars, threadVars>>
nonNotifyVars == <<runVars, callVars, threadVars>>
nonCallVars == <<runVars, notifyVars, threadVars>>
vars == <<runVars, notifyVars, callVars, threadVars>>

\* ------------------------------------------------------- initial components
\* Trading.__init__ has started every worker (run.py lines 29-30); run() has
\* just set keyboard_trigger_stop = False (line 56).
InitRun ==
    /\ pc = "L59"
    /\ t = 1
    /\ t2 = 1
    /\ keyboard_trigger_stop = FALSE
    /\ interrupts = 0
    /\ errorLogged = FALSE
    /\ alive = [w \in Workers |-> "running"]
    /\ stopRequested = [w \in Workers |-> FALSE]
    /\ joined = {}

\* self.lock = threading.Lock() (run.py line 18): created unlocked.
InitNotify ==
    /\ lock = FALSE
    /\ npc = [w \in Workers |-> "idle"]
    /\ observable_type = [w \in Workers |-> "none"]
    /\ pending = [w \in Workers |-> "none"]
    /\ thrown = [w \in Workers |-> "none"]
    /\ outcome = [w \in Workers |-> [status |-> "none", exc |-> "none"]]
    /\ inflight = {}

\* ================================================== the request pipeline: data
\* Python strings are sequences of one-character strings.
Digits == <<"0", "1", "2", "3", "4", "5", "6", "7", "8", "9">>
HexLower == Digits \o <<"a", "b", "c", "d", "e", "f">>
HexUpper == Digits \o <<"A", "B", "C", "D", "E", "F">>
\* The characters that occur in the model's strings; Ord is a character's
\* position in this list (its byte value, for the digest below).
Alphabet == HexLower \o <<"A", "B", "C", "D", "E", "F", "k", "s", "x", "N", "o",
                          " ", "u", "n", ".", "-", "r", "z">>

IndexOf(c, chars) == CHOOSE i \in 1..Len(chars) : chars[i] = c
Ord(c) == IndexOf(c, Alphabet)
IsDigit(c) == \E i \in 1..Len(Digits) : Digits[i] = c
DigitValue(c) == IndexOf(c, Digits) - 1

\* str(n) for a non-negative integer n.
RECURSIVE IntToStr(_)
IntToStr(n) ==
    IF n < 10 THEN <<Digits[n + 1]>>
    ELSE IntToStr(n \div 10) \o <<Digits[(n % 10) + 1]>>

\* int(s) for a string of decimal digits.
RECURSIVE StrToInt(_)
StrToInt(s) ==
    IF Len(s) = 0 THEN 0
    ELSE 10 * StrToInt(SubSeq(s, 1, Len(s) - 1)) + DigitValue(s[Len(s)])

\* str.upper(), on the characters of a hex digest.
UpperChar(c) ==
    IF \E i \in 11..16 : HexLower[i] = c THEN HexUpper[IndexOf(c, HexLower)] ELSE c
Upper(s) == [i \in 1..Len(s) |-> UpperChar(s[i])]

\* JSON values as r.json() decodes them, and the typed values the
\* normalizers produce.
JStr(s) == [tag |-> "str", val |-> s]
JList(q) == [tag |-> "list", val |-> q]
JDict(f) == [tag |-> "dict", val |-> f]
JDecimal(sign, coeff, exp) ==
    [tag |-> "decimal", val |-> [sign |-> sign, coeff |-> coeff, exp |-> exp]]
None == [tag |-> "None", val |-> <<>>]

EmptyDict == [k \in {} |-> None]

\* dict.update(new): the entries of new replace those of d with the same key.
Update(d, new) ==
    [k \in DOMAIN d \cup DOMAIN new |-> IF k \in DOMAIN new THEN new[k] ELSE d[k]]

\* ---- the digest of the request signature
\* hmac.new(key, msg, sha256).hexdigest(): the keyed two-pass construction
\* H(key ++ H(key ++ msg)), with a one-byte stand-in for SHA-256.
RECURSIVE Hash(_, _)
Hash(h, bytes) ==
    IF Len(bytes) = 0 THEN h
    ELSE Hash((h * 31 + bytes[1]) % 256, Tail(bytes))

Bytes(s) == [i \in 1..Len(s) |-> Ord(s[i])]

HmacDigest(key, msg) ==
    Hash(7, Bytes(key) \o <<Hash(7, Bytes(key) \o Bytes(msg))>>)

HexDigest(byte) == <<HexLower[(byte \div 16) + 1], HexLower[(byte % 16) + 1]>>

\* ---- Decimal(value)
\* Decimal of a string  [sign] digits [. digits]  (at least one digit): the
\* exact coefficient and exponent.  Any other string of the alphabet raises
\* InvalidOperation; a list or a dict raises TypeError.
DotsIn(s) == {i \in 1..Len(s) : s[i] = "."}

DecimalOfString(s) ==
    LET signed == Len(s) > 0 /\ s[1] \in {"-", "+"}
        body   == IF signed THEN Tail(s) ELSE s
        dots   == DotsIn(body)
        dot    == IF dots = {} THEN Len(body) + 1 ELSE CHOOSE i \in dots : TRUE
        int    == SubSeq(body, 1, dot - 1)
        frac   == SubSeq(body, dot + 1, Len(body))
        wellFormed ==
            /\ Cardinality(dots) <= 1
            /\ Len(int) + Len(frac) > 0
            /\ \A i \in 1..Len(int) : IsDigit(int[i])
            /\ \A i \in 1..Len(frac) : IsDigit(frac[i])
    IN  IF wellFormed
          THEN [raised |-> "none",
                value |-> JDecimal(IF signed /\ s[1] = "-" THEN 1 ELSE 0,
                                   StrToInt(int \o frac), 0 - Len(frac))]
          ELSE [raised |-> "InvalidOperation", value |-> None]

Decimal(v) ==
    IF v.tag = "str" THEN DecimalOfString(v.val)
    ELSE IF v.tag = "decimal" THEN [raised |-> "none", value |-> v]
    ELSE IF v.tag = "int"
      THEN [raised |-> "none",
            value |-> JDecimal(IF v.val < 0 THEN 1 ELSE 0,
                               IF v.val < 0 THEN 0 - v.val ELSE v.val, 0)]
    ELSE [raised |-> "TypeError", value |-> None]

\* ---- dt(timestamp)  (calls.py lines 12-27)
JInt(n) == [tag |-> "int", val |-> n]
JDatetime(epoch) == [tag |-> "datetime", val |-> epoch]

\* `not value`: None, zero, and the empty string, list or dict are falsy.
Falsy(v) ==
    \/ v.tag = "None"
    \/ v.tag = "int" /\ v.val = 0
    \/ v.tag \in {"str", "list"} /\ Len(v.val) = 0
    \/ v.tag = "dict" /\ DOMAIN v.val = {}

AllDigits(s) == Len(s) > 0 /\ \A i \in 1..Len(s) : IsDigit(s[i])

\* int(value): a string [sign] digits converts, any other string of the
\* model's inputs raises ValueError; a list or a dict raises TypeError.
IntOf(v) ==
    IF v.tag = "int" THEN [raised |-> "none", value |-> v.val]
    ELSE IF v.tag = "str"
      THEN LET signed == Len(v.val) > 0 /\ v.val[1] \in {"-", "+"}
               body   == IF signed THEN Tail(v.val) ELSE v.val
           IN  IF AllDigits(body)
                 THEN [raised |-> "none",
                       value |-> IF signed /\ v.val[1] = "-"
                                   THEN 0 - StrToInt(body) ELSE StrToInt(body)]
                 ELSE [raised |-> "ValueError", value |-> 0]
    ELSE [raised |-> "TypeError", value |-> 0]

IsLeap(y) == (y % 4 = 0 /\ y % 100 # 0) \/ y % 400 = 0
DaysInMonth(y, m) ==
    IF m = 2 THEN (IF IsLeap(y) THEN 29 ELSE 28)
    ELSE IF m \in {4, 6, 9, 11} THEN 30 ELSE 31

\* Days from 1970-01-01 to the civil date y-m-d.
DaysFromCivil(y, m, d) ==
    LET yy  == IF m <= 2 THEN y - 1 ELSE y
        era == yy \div 400
        yoe == yy - era * 400
        mp  == IF m > 2 THEN m - 3 ELSE m + 9
        doy == ((153 * mp + 2) \div 5) + d - 1
        doe == yoe * 365 + (yoe \div 4) - (yoe \div 100) + doy
    IN  era * 146097 + doe - 719468

\* time.strptime(s, '%Y-%m-%d %H:%M:%S') on the zero-padded form
\* YYYY-MM-DD HH:MM:SS, then time.mktime (local time taken as UTC): the epoch
\* seconds, or ValueError when the string does not match or names no date.
Field(s, from, to) == StrToInt(SubSeq(s, from, to))

StrptimeWhole(s) ==
    LET shaped ==
            /\ Len(s) = 19
            /\ \A i \in {1, 2, 3, 4, 6, 7, 9, 10, 12, 13, 15, 16, 18, 19} : IsDigit(s[i])
            /\ s[5] = "-" /\ s[8] = "-" /\ s[11] = " " /\ s[14] = ":" /\ s[17] = ":"
        y  == Field(s, 1, 4)
        mo == Field(s, 6, 7)
        d  == Field(s, 9, 10)
        h  == Field(s, 12, 13)
        mi == Field(s, 15, 16)
        se == Field(s, 18, 19)
    IN  IF /\ shaped
           /\ mo \in 1..12
           /\ d \in 1..DaysInMonth(y, mo)
           /\ h \in 0..23 /\ mi \in 0..59 /\ se \in 0..61
          THEN [raised |-> "none",
                value |-> DaysFromCivil(y, mo, d) * 86400 + h * 3600 + mi * 60 + se]
          ELSE [raised |-> "ValueError", value |-> 0]

\* time.strptime(s, '%Y-%m-%d %H:%M:%S.%f'), then time.mktime: %f takes one to
\* six digits, and struct_time keeps no fraction of a second.
StrptimeFractional(s) ==
    IF /\ Len(s) \in 21..26
       /\ s[20] = "."
       /\ AllDigits(SubSeq(s, 21, Len(s)))
      THEN StrptimeWhole(SubSeq(s, 1, 19))
      ELSE [raised |-> "ValueError", value |-> 0]

\* lines 25-26 of dt: the whole-seconds format, whose ValueError propagates;
\* then datetime.fromtimestamp (27).
DtTryWhole(w) ==
    IF w.raised = "none" THEN [raised |-> "none", value |-> JDatetime(w.value)]
    ELSE [raised |-> "ValueError", value |-> None]

\* lines 22-23 of dt: the fractional format, and on ValueError lines 25-26.
DtTryFractional(v, f) ==
    IF f.raised = "none" THEN [raised |-> "none", value |-> JDatetime(f.value)]
    ELSE DtTryWhole(StrptimeWhole(v.val))

\* lines 18-21 of dt: int() (19), and on ValueError lines 22-26; a TypeError
\* of int() is not caught.
DtTryInt(v, n) ==
    IF n.raised = "none" THEN [raised |-> "none", value |-> JDatetime(n.value)]
    ELSE IF n.raised # "ValueError" THEN [raised |-> n.raised, value |-> None]
    ELSE DtTryFractional(v, StrptimeFractional(v.val))

\* lines 18-27 of dt.
DtParse(v) == DtTryInt(v, IntOf(v))

\* dt(timestamp): None for a falsy timestamp (lines 16-17), else the
\* conversion of lines 18-27.
Dt(v) ==
    IF Falsy(v) THEN [raised |-> "none", value |-> None]
    ELSE DtParse(v)

\* ---- call classes
APICancelOrderCall ==
    [name |-> "APICancelOrderCall", url |-> "cancel_order/", method |-> "post",
     private |-> TRUE]

APIEURUSDConversionRateCall ==
    [name |-> "APIEURUSDConversionRateCall", url |-> "eur_usd/", method |-> "get",
     private |-> FALSE]

\* Mutant of APIOrderBookCall: derived from APIPrivateCall.
APIOrderBookCall_Private ==
    [name |-> "APIOrderBookCall", url |-> "order_book/btceur/", method |-> "post",
     private |-> TRUE]

\* class APIOrderBookCall(APICall) (lines 142-143): a public call, method 'get'.
APIOrderBookCall ==
    [name |-> "APIOrderBookCall", url |-> "order_book/btceur/", method |-> "get",
     private |-> FALSE]

APIBuyLimitOrderBTCEURCall ==
    [name |-> "APIBuyLimitOrderBTCEURCall", url |-> "buy/btceur/", method |-> "post",
     private |-> TRUE]

APISellLimitBTCEUROrderCall ==
    [name |-> "APISellLimitBTCEUROrderCall", url |-> "sell/btceur/", method |-> "post",
     private |-> TRUE]

CallClasses ==
    {APICancelOrderCall, APIEURUSDConversionRateCall, APIOrderBookCall,
     APIBuyLimitOrderBTCEURCall, APISellLimitBTCEUROrderCall}

\* response[k] = Decimal(response[k]) for each key of ks in turn, stopping at
\* the first statement that raises.  Indexing a list or a string with a string
\* raises TypeError, a missing key raises KeyError.
RECURSIVE CoerceDecimals(_, _)
CoerceDecimals(r, ks) ==
    IF Len(ks) = 0 THEN [raised |-> "none", response |-> r]
    ELSE IF r.tag # "dict" THEN [raised |-> "TypeError", response |-> r]
    ELSE IF ks[1] \notin DOMAIN r.val THEN [raised |-> "KeyError", response |-> r]
    ELSE LET d == Decimal(r.val[ks[1]])
         IN  IF d.raised # "none" THEN [raised |-> d.raised, response |-> r]
             ELSE CoerceDecimals(JDict([r.val EXCEPT ![ks[1]] = d.value]), Tail(ks))

Unprocessed(r) == [raised |-> "none", response |-> r]

\* for (price, amount) in rows: a row unpacks into exactly two items (a list
\* of two, or a string of two characters), else ValueError; a number or None
\* as a row is not iterable (TypeError).
RowItems(row) ==
    IF row.tag = "list"
      THEN IF Len(row.val) = 2 THEN [raised |-> "none", items |-> row.val]
           ELSE [raised |-> "ValueError", items |-> <<>>]
    ELSE IF row.tag = "str"
      THEN IF Len(row.val) = 2
             THEN [raised |-> "none",
                   items |-> <<JStr(<<row.val[1]>>), JStr(<<row.val[2]>>)>>]
             ELSE [raised |-> "ValueError", items |-> <<>>]
    ELSE [raised |-> "TypeError", items |-> <<>>]

\* Mutant of BookEntry: price and amount exchanged.
BookEntry_Swapped(price, amount) ==
    IF price.raised # "none" THEN [raised |-> price.raised, value |-> None]
    ELSE IF amount.raised # "none" THEN [raised |-> amount.raised, value |-> None]
    ELSE [raised |-> "none",
          value |-> JDict(("price" :> amount.value) @@ ("amount" :> price.value))]

\* lines 147-150: {'price': Decimal(price), 'amount': Decimal(amount)}, the
\* price converted first.
BookEntry(price, amount) ==
    IF price.raised # "none" THEN [raised |-> price.raised, value |-> None]
    ELSE IF amount.raised # "none" THEN [raised |-> amount.raised, value |-> None]
    ELSE [raised |-> "none",
          value |-> JDict(("price" :> price.value) @@ ("amount" :> amount.value))]

\* One row of the comprehension: the unpacking, then the entry.
Unpacked(u) ==
    IF u.raised # "none" THEN [raised |-> u.raised, value |-> None]
    ELSE BookEntry(Decimal(u.items[1]), Decimal(u.items[2]))

BookRow(row) == Unpacked(RowItems(row))

\* The entries of a list comprehension in order: the first row that raises
\* ends it.
JoinRows(first, rest) ==
    IF first.raised # "none" THEN [raised |-> first.raised, value |-> <<>>]
    ELSE IF rest.raised # "none" THEN rest
    ELSE [raised |-> "none", value |-> <<first.value>> \o rest.value]

RECURSIVE BookRows(_)
BookRows(rows) ==
    IF Len(rows) = 0 THEN [raised |-> "none", value |-> <<>>]
    ELSE JoinRows(BookRow(rows[1]), BookRows(Tail(rows)))

AsList(rows) == [raised |-> rows.raised, value |-> JList(rows.value)]

\* lines 147-154, one side of the book: the value must be a list (the inputs
\* hold no other iterable there; a number or None raises TypeError).
BookSide(v) ==
    IF v.tag # "list" THEN [raised |-> "TypeError", value |-> None]
    ELSE AsList(BookRows(v.val))

\* line 127: response['reason']['__all__'][0].
FirstReason(v) ==
    IF v.tag # "dict" THEN [raised |-> "TypeError", value |-> None]
    ELSE IF "__all__" \notin DOMAIN v.val THEN [raised |-> "KeyError", value |-> None]
    ELSE LET all == v.val["__all__"]
         IN  IF all.tag = "list"
               THEN IF Len(all.val) = 0 THEN [raised |-> "IndexError", value |-> None]
                    ELSE [raised |-> "none", value |-> all.val[1]]
             ELSE IF all.tag = "str"
               THEN IF Len(all.val) = 0 THEN [raised |-> "IndexError", value |-> None]
                    ELSE [raised |-> "none", value |-> JStr(<<all.val[1]>>)]
             ELSE IF all.tag = "dict" THEN [raised |-> "KeyError", value |-> None]
             ELSE [raised |-> "TypeError", value |-> None]

\* The conversions the hooks apply to a field.
Convert(convert, v) ==
    IF convert = "dt" THEN Dt(v)
    ELSE IF convert = "Decimal" THEN Decimal(v)
    ELSE IF convert = "rows" THEN BookSide(v)
    ELSE FirstReason(v)

\* `k in response`: key membership for a dict; None and numbers are not
\* iterable (TypeError).  No list or string of the model's inputs holds one
\* of the tested names, so the test is false for them.
Contains(r, k) == r.tag = "dict" /\ k \in DOMAIN r.val

\* response[k] = x, unless computing x raised.
Store(r, k, x) ==
    IF x.raised # "none" THEN [raised |-> x.raised, response |-> r]
    ELSE [raised |-> "none", response |-> JDict([r.val EXCEPT ![k] = x.value])]

\* One statement  response[k] = convert(response[k])  after the statements
\* that led to prev; with guarded, under  if k in response:.
Assign(prev, k, convert, guarded) ==
    LET r == prev.response
    IN  IF prev.raised # "none" THEN prev
        ELSE IF guarded /\ r.tag \in {"None", "int"}
          THEN [raised |-> "TypeError", response |-> r]
        ELSE IF guarded /\ ~Contains(r, k) THEN prev
        ELSE IF r.tag # "dict" THEN [raised |-> "TypeError", response |-> r]
        ELSE IF k \notin DOMAIN r.val THEN [raised |-> "KeyError", response |-> r]
        ELSE Store(r, k, Convert(convert, r.val[k]))

\* APIOrderBookCall._process_response (lines 145-154).
OrderBookHook(r) ==
    Assign(Assign(Assign(Unprocessed(r), "timestamp", "dt", FALSE),
                  "bids", "rows", FALSE),
           "asks", "rows", FALSE)

\* APISellLimitBTCEUROrderCall._process_response (lines 178-186).
SellHook(r) ==
    Assign(Assign(Assign(Unprocessed(r), "datetime", "dt", TRUE),
                  "price", "Decimal", TRUE),
           "amount", "Decimal", TRUE)

\* APIBuyLimitOrderBTCEURCall._process_response (lines 116-127).
BuyHook(r) ==
    Assign(Assign(Assign(Assign(Unprocessed(r), "datetime", "dt", TRUE),
                         "price", "Decimal", TRUE),
                  "amount", "Decimal", TRUE),
           "reason", "first reason", TRUE)

\* No hook has a return statement.
ReturnsNone(c) == [raised |-> c.raised, response |-> c.response, returns |-> None]

\* cls._process_response(response): what it raises, the response as mutated in
\* place, and the value it returns (None for every hook modelled here).
ProcessResponse(cls, r) ==
    ReturnsNone(IF cls.name = "APIEURUSDConversionRateCall"
                  THEN CoerceDecimals(r, <<"buy", "sell">>)
                ELSE IF cls.name = "APIOrderBookCall" THEN OrderBookHook(r)
                ELSE IF cls.name = "APIBuyLimitOrderBTCEURCall" THEN BuyHook(r)
                ELSE IF cls.name = "APISellLimitBTCEUROrderCall" THEN SellHook(r)
                ELSE Unprocessed(r))

\* ---- inputs
Funds == <<"N", "o", " ", "f", "u", "n", "d", "s">>
Nested == JDict("__all__" :> JList(<<JStr(Funds)>>))

\* Bodies that are no order book and no order.
NonBookPayloads ==
    { JDict("error" :> JStr(Funds)),
      JDict("error" :> Nested),
      JDict(("error" :> JStr(Funds)) @@ ("buy" :> JStr(<<"1", ".", "1", "0">>))
                                     @@ ("sell" :> JStr(<<"1", ".", "2">>))),
      JDict(("buy" :> JStr(<<"1", ".", "1", "0">>)) @@ ("sell" :> JStr(<<"1", ".", "2">>))),
      JDict(("buy" :> JStr(<<"-", "3">>)) @@ ("sell" :> JStr(<<"x">>))),
      JDict("id" :> JStr(<<"4", "2">>)),
      JList(<<JDict("error" :> JStr(Funds))>>),
      JStr(<<"e", "r", "r", "o", "r">>) }

\* Timestamps as the exchange may send them.
TsEpoch == JStr(<<"1", "6", "0", "9", "4", "9", "5", "2", "0", "0">>)
TsWhole == JStr(<<"2", "0", "2", "1", "-", "0", "1", "-", "0", "1", " ", "1", "0", ":", "0", "0", ":", "0", "0">>)
TsFractional == JStr(<<"2", "0", "2", "1", "-", "0", "1", "-", "0", "1", " ", "1", "0", ":", "0", "0", ":", "0", "0", ".", "5", "0", "0", "0", "0", "0">>)
TsUnparsable == JStr(<<"n", "o", "t", "-", "a", "-", "d", "a", "t", "e">>)
TsEmpty == JStr(<<>>)
Timestamps == {TsEpoch, TsWhole, TsFractional, TsUnparsable, TsEmpty,
               JInt(0), JInt(1609495200), None}

Row(price, amount) == JList(<<JStr(price), JStr(amount)>>)
BookRoundTrip ==
    [bids |-> JList(<<Row(<<"1", "0", "0", ".", "5">>, <<"2", ".", "0">>)>>), asks |-> JList(<<Row(<<"1", "0", "1", ".", "0">>, <<"1", ".", "5">>)>>)]
BookTwoBids ==
    [bids |-> JList(<<Row(<<"1", "0", "0", ".", "5">>, <<"2", ".", "0">>), Row(<<"9", "9">>, <<"3">>)>>), asks |-> JList(<<>>)]
BookShortRow ==
    [bids |-> JList(<<JList(<<JStr(<<"1", "0", "0", ".", "5">>)>>)>>), asks |-> JList(<<>>)]
BookBadPrice ==
    [bids |-> JList(<<Row(<<"x">>, <<"1">>)>>), asks |-> JList(<<Row(<<"1", "0", "1", ".", "0">>, <<"1", ".", "5">>)>>)]

OrderBook(ts, book) ==
    JDict(("timestamp" :> ts) @@ ("bids" :> book.bids) @@ ("asks" :> book.asks))

OrderBookPayloads ==
    {OrderBook(ts, BookRoundTrip) : ts \in Timestamps}
        \cup {OrderBook(TsEpoch, b) : b \in {BookTwoBids, BookShortRow, BookBadPrice}}

TooSmall == <<"t", "o", "o", " ", "s", "m", "a", "l", "l">>
Second == <<"s", "e", "c", "o", "n", "d">>
OrderPayloads ==
    { JDict(("id" :> JStr(<<"4", "2">>)) @@ ("datetime" :> TsFractional)
              @@ ("price" :> JStr(<<"1", "0", "0", ".", "5">>)) @@ ("amount" :> JStr(<<"2", ".", "0">>))),
      JDict(("status" :> JStr(<<"e", "r", "r", "o", "r">>))
              @@ ("reason" :> JDict("__all__" :> JList(<<JStr(TooSmall), JStr(Second)>>)))),
      JDict("reason" :> JDict("__all__" :> JList(<<>>))),
      JDict("reason" :> JStr(TooSmall)) }

\* The bodies the exchange may answer with.
RawPayloads ==
    NonBookPayloads \cup OrderBookPayloads \cup OrderPayloads

\* The operation-specific parameters a caller passes to call(**params).
CallerParams ==
    { EmptyDict,
      "id" :> <<"4", "2">>,
      ("amount" :> <<"2">>) @@ ("nonce" :> <<"1">>) @@ ("key" :> <<"x">>) }

\* The parameters the Exchange Facade passes for a call class:
\* BitstampAPI.order_book is a staticmethod that calls api.order_book() with no
\* argument (bitstamp_api.py lines 33-35), so the order-book call gets none.
FacadeParams(cls) ==
    IF cls = APIOrderBookCall THEN {EmptyDict} ELSE CallerParams

\* The credential triples an executor may be built with.
Credentials ==
    { [client_id |-> <<"7">>, api_key |-> <<"k", "1">>, api_secret |-> <<"s", "1">>],
      [client_id |-> <<"1", "7">>, api_key |-> <<"k">>, api_secret |-> <<"s", "2">>] }

\* Failures of requests.get / requests.post / r.json().
TransportFailures == {"ConnectionError", "Timeout", "ValueError"}

\* ---- bounds of the pipeline
TicksPerMicro == 2
StartClock == 18
MaxClock == 21
MaxCalls == 2

NoRequest == [method |-> "none", url |-> "none", params |-> EmptyDict]
NoResult == [status |-> "none", exc |-> "none", value |-> None]
NoCallClass == [name |-> "none", url |-> "none", method |-> "none", private |-> FALSE]

NoCall == [cls |-> NoCallClass, params |-> EmptyDict]

\* An executor built with its credentials (calls.py lines 69-73); no call yet.
InitCall ==
    /\ \E c \in Credentials :
          /\ client_id = c.client_id
          /\ api_key = c.api_key
          /\ api_secret = c.api_secret
    /\ clock = StartClock
    /\ calls = 0
    /\ nonces = <<>>
    /\ cpc = "idle"
    /\ endpoint = NoCallClass
    /\ request = NoRequest
    /\ sent = 0
    /\ response = None
    /\ processed = <<>>
    /\ result = NoResult
    /\ args = EmptyDict
    /\ transport = "none"
    /\ checked = 0

\* No thread has a private call under way.
InitThreads ==
    /\ tpc = [w \in Workers |-> "idle"]
    /\ tcall = [w \in Workers |-> NoCall]
    /\ tnonce = [w \in Workers |-> <<>>]
    /\ treq = [w \in Workers |-> NoRequest]

\* The process after Trading() has been constructed.
Init == InitRun /\ InitNotify /\ InitCall /\ InitThreads

\* ============================================================ Trading.run
\* The pc values are the line numbers of src/run.py.

\* line 59: if keyboard_trigger_stop: enter the drain, else start the checks.
\* An empty worker list would fall through to the break of line 63.
RunTestStop ==
    /\ UNCHANGED nonRunVars
    /\ pc = "L59"
    /\ IF keyboard_trigger_stop
         THEN /\ t' = 1
              /\ pc' = IF Len(workers) = 0 THEN "returned" ELSE "L61"
         ELSE /\ t' = 1
              /\ pc' = IF Len(workers) = 0 THEN "L71" ELSE "L65"
    /\ UNCHANGED <<t2, keyboard_trigger_stop, interrupts, errorLogged,
                   alive, stopRequested, joined>>

\* line 61: t.terminate()
RunStopTerminate ==
    /\ UNCHANGED nonRunVars
    /\ pc = "L61"
    /\ stopRequested' = [stopRequested EXCEPT ![workers[t]] = TRUE]
    /\ pc' = "L62"
    /\ UNCHANGED <<t, t2, keyboard_trigger_stop, interrupts, errorLogged,
                   alive, joined>>

\* Mutant of RunStopJoin: the break of line 63 indented into the for loop, so
\* the drain stops after the first worker.
RunStopJoin_BreakInsideLoop ==
    /\ UNCHANGED nonRunVars
    /\ pc = "L62"
    /\ alive[workers[t]] = "dead"
    /\ joined' = joined \cup {workers[t]}
    /\ t' = t
    /\ pc' = "returned"
    /\ UNCHANGED <<t2, keyboard_trigger_stop, interrupts, errorLogged,
                   alive, stopRequested>>

\* line 62: t.join() returns once the worker is dead; after the last worker
\* the break of line 63 leaves the while loop and run() returns.
RunStopJoin ==
    /\ UNCHANGED nonRunVars
    /\ pc = "L62"
    /\ alive[workers[t]] = "dead"
    /\ joined' = joined \cup {workers[t]}
    /\ IF t < Len(workers)
         THEN t' = t + 1 /\ pc' = "L61"
         ELSE t' = t /\ pc' = "returned"
    /\ UNCHANGED <<t2, keyboard_trigger_stop, interrupts, errorLogged,
                   alive, stopRequested>>

\* line 65: if not t.is_alive(): a dead worker leads to line 66, a live one
\* to the next worker or, after the last, to the sleep of line 71.
RunIsAlive ==
    /\ UNCHANGED nonRunVars
    /\ pc = "L65"
    /\ IF alive[workers[t]] = "dead"
         THEN t' = t /\ pc' = "L66"
         ELSE IF t < Len(workers)
                THEN t' = t + 1 /\ pc' = "L65"
                ELSE t' = t /\ pc' = "L71"
    /\ UNCHANGED <<t2, keyboard_trigger_stop, interrupts, errorLogged,
                   alive, stopRequested, joined>>

\* line 66: self.logger.error('{0} is dead. Program will exit.')
RunLogDead ==
    /\ UNCHANGED nonRunVars
    /\ pc = "L66"
    /\ errorLogged' = TRUE
    /\ t2' = 1
    /\ pc' = "L68"
    /\ UNCHANGED <<t, keyboard_trigger_stop, interrupts, alive, stopRequested,
                   joined>>

\* Mutant of RunDeadTerminate: the escalation drain joins without asking the
\* worker to terminate first.
RunDeadTerminate_Omitted ==
    /\ UNCHANGED nonRunVars
    /\ pc = "L68"
    /\ pc' = "L69"
    /\ UNCHANGED <<t, t2, keyboard_trigger_stop, interrupts, errorLogged,
                   alive, stopRequested, joined>>

\* line 68: t2.terminate()
RunDeadTerminate ==
    /\ UNCHANGED nonRunVars
    /\ pc = "L68"
    /\ stopRequested' = [stopRequested EXCEPT ![workers[t2]] = TRUE]
    /\ pc' = "L69"
    /\ UNCHANGED <<t, t2, keyboard_trigger_stop, interrupts, errorLogged,
                   alive, joined>>

\* Mutant of RunDeadJoin: the escalation drain does not wait for the worker.
RunDeadJoin_NoWait ==
    /\ UNCHANGED nonRunVars
    /\ pc = "L69"
    /\ joined' = joined \cup {workers[t2]}
    /\ IF t2 < Len(workers)
         THEN t2' = t2 + 1 /\ pc' = "L68"
         ELSE t2' = t2 /\ pc' = "L70"
    /\ UNCHANGED <<t, keyboard_trigger_stop, interrupts, errorLogged,
                   alive, stopRequested>>

\* line 69: t2.join(); after the last worker the inner loop is exhausted and
\* control reaches the break of line 70.
RunDeadJoin ==
    /\ UNCHANGED nonRunVars
    /\ pc = "L69"
    /\ alive[workers[t2]] = "dead"
    /\ joined' = joined \cup {workers[t2]}
    /\ IF t2 < Len(workers)
         THEN t2' = t2 + 1 /\ pc' = "L68"
         ELSE t2' = t2 /\ pc' = "L70"
    /\ UNCHANGED <<t, keyboard_trigger_stop, interrupts, errorLogged,
                   alive, stopRequested>>

\* line 70: break.  It closes the `for t in self.workers` loop of line 64,
\* the innermost loop around it, so control continues at the sleep of line 71
\* inside the while loop.
RunDeadBreak ==
    /\ UNCHANGED nonRunVars
    /\ pc = "L70"
    /\ pc' = "L71"
    /\ UNCHANGED <<t, t2, keyboard_trigger_stop, interrupts, errorLogged,
                   alive, stopRequested, joined>>

\* line 71: sleep(0.1), then the next iteration of while True.
RunSleep ==
    /\ UNCHANGED nonRunVars
    /\ pc = "L71"
    /\ pc' = "L59"
    /\ UNCHANGED <<t, t2, keyboard_trigger_stop, interrupts, errorLogged,
                   alive, stopRequested, joined>>

\* The statements of the try block (lines 59-71).
TryBlock == {"L59", "L61", "L62", "L65", "L66", "L68", "L69", "L70", "L71"}

\* lines 72-73: a KeyboardInterrupt raised anywhere in the try block (also
\* while blocked in join() or sleep()) is caught, the flag is set, and the
\* while loop starts its next iteration.
RunKeyboardInterrupt ==
    /\ UNCHANGED nonRunVars
    /\ pc \in TryBlock
    /\ interrupts < MaxInterrupts
    /\ interrupts' = interrupts + 1
    /\ keyboard_trigger_stop' = TRUE
    /\ pc' = "L59"
    /\ UNCHANGED <<t, t2, errorLogged, alive, stopRequested, joined>>

\* A worker's thread of control dies on its own (crash or unexpected exit).
WorkerDies(w) ==
    /\ UNCHANGED nonRunVars
    /\ alive[w] = "running"
    /\ ~stopRequested[w]
    /\ pc # "returned"
    /\ alive' = [alive EXCEPT ![w] = "dead"]
    /\ UNCHANGED <<pc, t, t2, keyboard_trigger_stop, interrupts, errorLogged,
                   stopRequested, joined>>

\* Cooperative termination: a worker asked to stop observes the request at
\* its next poll boundary and leaves its loop.
WorkerHonorsTerminate(w) ==
    /\ UNCHANGED nonRunVars
    /\ alive[w] = "running"
    /\ stopRequested[w]
    /\ alive' = [alive EXCEPT ![w] = "dead"]
    /\ UNCHANGED <<pc, t, t2, keyboard_trigger_stop, interrupts, errorLogged,
                   stopRequested, joined>>

SupervisorStep ==
    \/ RunTestStop
    \/ RunStopTerminate
    \/ RunStopJoin
    \/ RunIsAlive
    \/ RunLogDead
    \/ RunDeadTerminate
    \/ RunDeadJoin
    \/ RunDeadBreak
    \/ RunSleep

NextRun ==
    \/ RunTestStop
    \/ RunStopTerminate
    \/ RunStopJoin
    \/ RunIsAlive
    \/ RunLogDead
    \/ RunDeadTerminate
    \/ RunDeadJoin
    \/ RunDeadBreak
    \/ RunSleep
    \/ RunKeyboardInterrupt
    \/ \E w \in Workers : WorkerDies(w)
    \/ \E w \in Workers : WorkerHonorsTerminate(w)

SpecRun == Init /\ [][NextRun]_vars

\* The supervisor thread keeps running, and a worker asked to terminate
\* eventually honors the request; interrupts are the operator's choice.
FairSpecRun ==
    /\ SpecRun
    /\ WF_vars(SupervisorStep)
    /\ \A w \in Workers : WF_vars(WorkerHonorsTerminate(w))

\* ------------------------------------------------------ claims on Trading.run
Drained(w) == stopRequested[w] /\ w \in joined /\ alive[w] = "dead"

\* C1 (as claimed): once a liveness check has found a worker dead and the
\* death has been reported, the loop is on its way to stopped: it performs no
\* further liveness check (it is never again about to run line 65).
C1_NoLivenessCheckAfterDeath ==
    errorLogged => pc # "L65"

\* C2: when the escalation drain started by a dead worker has completed
\* (control is at the break of line 70), every worker of the list has
\* received terminate(), has been joined, and is no longer running.
C2_EscalationDrainsEveryWorker ==
    pc = "L70" => \A w \in Workers : Drained(w)

C2_Witness ==
    /\ pc = "L70"
    /\ errorLogged
    /\ ~keyboard_trigger_stop
    /\ \A w \in Workers : Drained(w)

\* C3: after a KeyboardInterrupt has been caught, run() eventually returns;
\* when it has returned every worker has received terminate() and has been
\* joined; and from the interrupt on no worker death is reported (line 66 is
\* never reached with the flag set).
C3_InterruptDrainsThenReturns ==
    /\ [](keyboard_trigger_stop => <>(pc = "returned"))
    /\ [](pc = "returned" => \A w \in Workers : Drained(w))
    /\ [](keyboard_trigger_stop => pc # "L66")

C3_Witness ==
    /\ pc = "returned"
    /\ keyboard_trigger_stop
    /\ ~errorLogged
    /\ \A w \in Workers : Drained(w)

\* C4: join() is only ever called on a worker that has already received
\* terminate() (in both drains), no join has returned for a worker that was
\* not asked to terminate, and run() has not returned unless every worker
\* was asked to terminate and has been joined.
C4_TerminateBeforeJoinBeforeReturn ==
    /\ pc = "L62" => stopRequested[workers[t]]
    /\ pc = "L69" => stopRequested[workers[t2]]
    /\ \A w \in joined : stopRequested[w]
    /\ pc = "returned" => \A w \in Workers : stopRequested[w] /\ w \in joined

\* Deaths and interrupts interleaved: a death was reported, then interrupts
\* cut in, and run() returned after the drain.
C4_Witness ==
    /\ pc = "returned"
    /\ errorLogged
    /\ interrupts = MaxInterrupts
    /\ joined = Workers

\* ========================================================= Trading.notify
\* Each worker thread delivers its events by calling Trading.notify; npc is
\* the line of src/run.py the thread is about to execute ("idle": outside
\* notify).

\* What type(observable) can be at line 44.
ObservableTypes == {"BitstampAPI", "Other"}

NoOutcome == [status |-> "none", exc |-> "none"]

\* The lines of price_update_notification (32-40), including the wait for
\* the answer to a request issued from line 36.
InHandler == {"L34", "L36", "L36_request", "L38", "L40"}

\* line 42: a thread calls notify(observable, ...).
NotifyEnter(w, ot) ==
    /\ UNCHANGED nonNotifyVars
    /\ npc[w] = "idle"
    /\ npc' = [npc EXCEPT ![w] = "L43"]
    /\ observable_type' = [observable_type EXCEPT ![w] = ot]
    /\ pending' = [pending EXCEPT ![w] = "none"]
    /\ thrown' = [thrown EXCEPT ![w] = "none"]
    /\ outcome' = [outcome EXCEPT ![w] = NoOutcome]
    /\ UNCHANGED <<lock, inflight>>

\* Mutant of NotifyAcquire: the acquire does not wait for the lock to be free.
NotifyAcquire_NoWait(w) ==
    /\ UNCHANGED nonNotifyVars
    /\ npc[w] = "L43"
    /\ lock' = TRUE
    /\ npc' = [npc EXCEPT ![w] = "L46"]
    /\ UNCHANGED <<observable_type, pending, thrown, outcome, inflight>>

\* lines 43-44: self.lock.acquire() blocks until the lock is free.
NotifyAcquire(w) ==
    /\ UNCHANGED nonNotifyVars
    /\ npc[w] = "L43"
    /\ ~lock
    /\ lock' = TRUE
    /\ npc' = [npc EXCEPT ![w] = "L46"]
    /\ UNCHANGED <<observable_type, pending, thrown, outcome, inflight>>

\* lines 46-49: a BitstampAPI observable enters price_update_notification
\* (line 33 logs), any other type raises Exception('Unknown type.').
NotifyDispatch(w) ==
    /\ UNCHANGED nonNotifyVars
    /\ npc[w] = "L46"
    /\ IF observable_type[w] = "BitstampAPI"
         THEN /\ npc' = [npc EXCEPT ![w] = "L34"]
              /\ UNCHANGED <<pending, thrown>>
         ELSE /\ npc' = [npc EXCEPT ![w] = "L50"]
              /\ pending' = [pending EXCEPT ![w] = "Unknown type."]
              /\ thrown' = [thrown EXCEPT ![w] = "Unknown type."]
    /\ UNCHANGED <<lock, observable_type, outcome, inflight>>

\* lines 34-35: self.model_prices.call(args, kwargs) returns the model output
\* or raises.
HandlerModelCall(w) ==
    /\ UNCHANGED nonNotifyVars
    /\ npc[w] = "L34"
    /\ \/ /\ npc' = [npc EXCEPT ![w] = "L36"]
          /\ UNCHANGED <<pending, thrown>>
       \/ /\ npc' = [npc EXCEPT ![w] = "L50"]
          /\ pending' = [pending EXCEPT ![w] = "ModelError"]
          /\ thrown' = [thrown EXCEPT ![w] = "ModelError"]
    /\ UNCHANGED <<lock, observable_type, outcome, inflight>>

\* line 36: self.model_action_taker.take_trading_action(model_output).  The
\* decision component either takes no action (returns None) or issues a
\* buy/sell/cancel through the Exchange Facade and waits for the answer.
HandlerTakeTradingAction(w) ==
    /\ UNCHANGED nonNotifyVars
    /\ npc[w] = "L36"
    /\ \/ /\ npc' = [npc EXCEPT ![w] = "L38"]
          /\ UNCHANGED inflight
       \/ /\ npc' = [npc EXCEPT ![w] = "L36_request"]
          /\ inflight' = inflight \cup {w}
    /\ UNCHANGED <<lock, observable_type, pending, thrown, outcome>>

\* The answer to the request of line 36 arrives: the facade call returns the
\* order (line 40 follows) or fails with an error that propagates.
FacadeResponse(w) ==
    /\ UNCHANGED nonNotifyVars
    /\ npc[w] = "L36_request"
    /\ inflight' = inflight \ {w}
    /\ \/ /\ npc' = [npc EXCEPT ![w] = "L40"]
          /\ UNCHANGED <<pending, thrown>>
       \/ /\ npc' = [npc EXCEPT ![w] = "L50"]
          /\ pending' = [pending EXCEPT ![w] = "APIError"]
          /\ thrown' = [thrown EXCEPT ![w] = "APIError"]
    /\ UNCHANGED <<lock, observable_type, outcome>>

\* lines 37-40: the handler logs what happened and returns.
HandlerLogAndReturn(w) ==
    /\ UNCHANGED nonNotifyVars
    /\ npc[w] \in {"L38", "L40"}
    /\ npc' = [npc EXCEPT ![w] = "L53"]
    /\ UNCHANGED <<lock, observable_type, pending, thrown, outcome, inflight>>

\* Mutant of NotifyExcept: the except clause swallows the exception.
NotifyExcept_Swallow(w) ==
    /\ UNCHANGED nonNotifyVars
    /\ npc[w] = "L50"
    /\ pending' = [pending EXCEPT ![w] = "none"]
    /\ npc' = [npc EXCEPT ![w] = "L53"]
    /\ UNCHANGED <<lock, observable_type, thrown, outcome, inflight>>

\* lines 50-51: except Exception as e: raise e.  The exception stays in
\* flight; the finally clause runs next.
NotifyExcept(w) ==
    /\ UNCHANGED nonNotifyVars
    /\ npc[w] = "L50"
    /\ pending' = [pending EXCEPT ![w] = pending[w]]
    /\ npc' = [npc EXCEPT ![w] = "L53"]
    /\ UNCHANGED <<lock, observable_type, thrown, outcome, inflight>>

\* Mutant of NotifyFinally: the lock is released only when no exception is in
\* flight (the release at the end of the try block instead of in finally).
NotifyFinally_ReleaseOnSuccessOnly(w) ==
    /\ UNCHANGED nonNotifyVars
    /\ npc[w] = "L53"
    /\ lock' = IF pending[w] = "none" THEN FALSE ELSE lock
    /\ outcome' = [outcome EXCEPT ![w] =
                     IF pending[w] = "none"
                       THEN [status |-> "returned", exc |-> "none"]
                       ELSE [status |-> "raised", exc |-> pending[w]]]
    /\ pending' = [pending EXCEPT ![w] = "none"]
    /\ npc' = [npc EXCEPT ![w] = "idle"]
    /\ UNCHANGED <<observable_type, thrown, inflight>>

\* lines 52-53: finally: self.lock.release(); then notify returns, or the
\* exception in flight leaves notify towards the caller.
NotifyFinally(w) ==
    /\ UNCHANGED nonNotifyVars
    /\ npc[w] = "L53"
    /\ lock' = FALSE
    /\ outcome' = [outcome EXCEPT ![w] =
                     IF pending[w] = "none"
                       THEN [status |-> "returned", exc |-> "none"]
                       ELSE [status |-> "raised", exc |-> pending[w]]]
    /\ pending' = [pending EXCEPT ![w] = "none"]
    /\ npc' = [npc EXCEPT ![w] = "idle"]
    /\ UNCHANGED <<observable_type, thrown, inflight>>

NextNotify ==
    \/ \E w \in Workers, ot \in ObservableTypes : NotifyEnter(w, ot)
    \/ \E w \in Workers : NotifyAcquire(w)
    \/ \E w \in Workers : NotifyDispatch(w)
    \/ \E w \in Workers : HandlerModelCall(w)
    \/ \E w \in Workers : HandlerTakeTradingAction(w)
    \/ \E w \in Workers : FacadeResponse(w)
    \/ \E w \in Workers : HandlerLogAndReturn(w)
    \/ \E w \in Workers : NotifyExcept(w)
    \/ \E w \in Workers : NotifyFinally(w)

SpecNotify == Init /\ [][NextNotify]_vars

\* --------------------------------------------------- claims on Trading.notify

\* C8: at most one thread at a time is executing price_update_notification.
C8_OneThreadInHandler ==
    Cardinality({w \in Workers : npc[w] \in InHandler}) <= 1

\* One thread is inside the handler while another one has called notify and
\* waits at the acquire.
C8_Witness ==
    \E w1, w2 \in Workers :
        /\ w1 # w2
        /\ npc[w1] \in InHandler
        /\ npc[w2] = "L43"

\* C9 (as claimed): no Exchange Facade request is in flight while the lock
\* acquired in notify is held.
C9_NoRequestWhileLockHeld ==
    inflight # {} => ~lock

\* C10: when notify has exited after an exception was raised during the
\* delivery (by the handler or by the unknown-type branch), the caller saw
\* notify raise that same exception.
C10_ExceptionReachesCaller ==
    \A w \in Workers :
        (npc[w] = "idle" /\ thrown[w] # "none")
            => outcome[w] = [status |-> "raised", exc |-> thrown[w]]

\* Both kinds of failure have reached their callers.
C10_Witness ==
    \E w1, w2 \in Workers :
        /\ npc[w1] = "idle"
        /\ outcome[w1] = [status |-> "raised", exc |-> "Unknown type."]
        /\ npc[w2] = "idle"
        /\ outcome[w2] = [status |-> "raised", exc |-> "ModelError"]

\* ============================================== the request pipeline: calls

\* line 76: str(int(time.time() * 1e6)).
GetNonce == IntToStr(clock \div TicksPerMicro)

\* lines 80-84: the signature over nonce + client_id + api_key, keyed by the
\* secret, as upper-case hex.
Signature(nonce) ==
    Upper(HexDigest(HmacDigest(api_secret, nonce \o client_id \o api_key)))

\* Mutant of PrivateParams: the caller's parameters win over the generated
\* ones (the generated dict updated with params instead of the reverse).
PrivateParams_CallerWins(params, nonce) ==
    Update([key |-> api_key, signature |-> Signature(nonce), nonce |-> nonce], params)

\* Mutant of PrivateParams: the request carries the generated parameters only.
PrivateParams_DropsCallerParams(params, nonce) ==
    [key |-> api_key, signature |-> Signature(nonce), nonce |-> nonce]

\* lines 85-87: params.update({'key': ..., 'signature': ..., 'nonce': ...}).
PrivateParams(params, nonce) ==
    Update(params, [key |-> api_key, signature |-> Signature(nonce), nonce |-> nonce])

\* line 57: isinstance(response, dict) and 'error' in response.
IsAPIError(r) == r.tag = "dict" /\ "error" \in DOMAIN r.val

Raised(exc, value) == [status |-> "raised", exc |-> exc, value |-> value]
Returned(value) == [status |-> "returned", exc |-> "none", value |-> value]

\* Mutant of CallOutcome: the hook runs before the API-error check.
CallOutcome_HookFirst(cls, r) ==
    LET h == ProcessResponse(cls, r)
    IN  IF h.raised # "none"
          THEN [result |-> Raised(h.raised, None), processed |-> <<r>>]
        ELSE IF IsAPIError(h.response)
          THEN [result |-> Raised("APIError", h.response.val["error"]),
                processed |-> <<r>>]
        ELSE [result |-> Returned(h.response), processed |-> <<r>>]

\* lines 56-63: the API-error check, then the hook, then the return value.
CallOutcome(cls, r) ==
    IF IsAPIError(r)
      THEN [result |-> Raised("APIError", r.val["error"]), processed |-> <<>>]
      ELSE LET h == ProcessResponse(cls, r)
           IN  IF h.raised # "none"
                 THEN [result |-> Raised(h.raised, None), processed |-> <<r>>]
               ELSE IF h.returns # None
                 THEN [result |-> Returned(h.returns), processed |-> <<r>>]
               ELSE [result |-> Returned(h.response), processed |-> <<r>>]

\* The system clock advances.
Tick ==
    /\ UNCHANGED nonCallVars
    /\ clock < MaxClock
    /\ clock' = clock + 1
    /\ UNCHANGED <<client_id, api_key, api_secret, calls, nonces, cpc, endpoint,
                   request, sent, response, processed, result, args, transport,
                   checked>>

\* cls.call(prefix_url, **params) up to the moment the request is on the wire:
\* for a private class lines 79-88 (nonce, signature, merged parameters), then
\* lines 49-54 (requests.get with params=, or requests.post with data=).
CallSend(cls, params) ==
    /\ UNCHANGED nonCallVars
    /\ cpc = "idle"
    /\ calls < MaxCalls
    /\ calls' = calls + 1
    /\ endpoint' = cls
    /\ LET nonce == GetNonce
           out == IF cls.private THEN PrivateParams(params, nonce) ELSE params
       IN  /\ nonces' = IF cls.private THEN Append(nonces, nonce) ELSE nonces
           /\ request' = [method |-> cls.method, url |-> cls.url, params |-> out]
    /\ sent' = 1
    /\ args' = params
    /\ transport' = "pending"
    /\ checked' = 0
    /\ response' = None
    /\ processed' = <<>>
    /\ result' = NoResult
    /\ cpc' = "waiting"
    /\ UNCHANGED <<client_id, api_key, api_secret, clock>>

\* Mutant of CallTransportFails: the request is issued once more after the
\* first failure.
CallTransportFails_Retry(exc) ==
    /\ UNCHANGED nonCallVars
    /\ cpc = "waiting"
    /\ IF sent < 2
         THEN /\ sent' = sent + 1
              /\ UNCHANGED <<transport, result, cpc>>
         ELSE /\ transport' = exc
              /\ result' = Raised(exc, None)
              /\ cpc' = "idle"
              /\ UNCHANGED sent
    /\ UNCHANGED <<client_id, api_key, api_secret, clock, calls, nonces, endpoint,
                   request, response, processed, args, checked>>

\* Mutant of CallTransportFails: the failure is caught and the call goes on to
\* line 57 with no body.
CallTransportFails_Swallowed(exc) ==
    /\ UNCHANGED nonCallVars
    /\ cpc = "waiting"
    /\ transport' = exc
    /\ cpc' = "L57"
    /\ UNCHANGED <<client_id, api_key, api_secret, clock, calls, nonces, endpoint,
                   request, sent, response, processed, result, args, checked>>

\* line 55: the round trip completed and r.json() decoded the body.
CallReceive(body) ==
    /\ UNCHANGED nonCallVars
    /\ cpc = "waiting"
    /\ response' = body
    /\ transport' = "ok"
    /\ cpc' = "L57"
    /\ UNCHANGED <<client_id, api_key, api_secret, clock, calls, nonces, endpoint,
                   request, sent, processed, result, args, checked>>

\* lines 52-55: requests or r.json() raised; nothing in call() catches it.
CallTransportFails(exc) ==
    /\ UNCHANGED nonCallVars
    /\ cpc = "waiting"
    /\ transport' = exc
    /\ result' = Raised(exc, None)
    /\ cpc' = "idle"
    /\ UNCHANGED <<client_id, api_key, api_secret, clock, calls, nonces, endpoint,
                   request, sent, response, processed, args, checked>>

\* lines 56-63: the rest of call() on the decoded body.
CallFinish ==
    /\ UNCHANGED nonCallVars
    /\ cpc = "L57"
    /\ LET o == CallOutcome(endpoint, response)
       IN  /\ result' = o.result
           /\ processed' = o.processed
    /\ checked' = checked + 1
    /\ cpc' = "idle"
    /\ UNCHANGED <<client_id, api_key, api_secret, clock, calls, nonces, endpoint,
                   request, sent, response, args, transport>>

NextCall ==
    \/ Tick
    \/ \E cls \in CallClasses : \E params \in FacadeParams(cls) : CallSend(cls, params)
    \/ \E body \in RawPayloads : CallReceive(body)
    \/ \E exc \in TransportFailures : CallTransportFails(exc)
    \/ CallFinish

SpecCall == Init /\ [][NextCall]_vars

\* ------------------------------------------------ claims on the pipeline

\* C5: when a call has ended on a decoded body that is a record with an
\* 'error' field, it ended by raising APIError carrying that field's value,
\* and the hook was not invoked; the hook is never invoked on such a body.
C5_APIErrorBypassesNormalizer ==
    /\ (cpc = "idle" /\ IsAPIError(response))
          => /\ result = Raised("APIError", response.val["error"])
             /\ processed = <<>>
    /\ \A i \in 1..Len(processed) : ~IsAPIError(processed[i])

\* A public call answered with an error record next to otherwise valid fields.
C5_Witness ==
    /\ cpc = "idle"
    /\ ~endpoint.private
    /\ IsAPIError(response)
    /\ "buy" \in DOMAIN response.val
    /\ result.exc = "APIError"

\* C6 (as claimed): the nonces of consecutive private calls are strictly
\* increasing.
C6_NoncesStrictlyIncrease ==
    \A i, j \in 1..Len(nonces) :
        i < j => StrToInt(nonces[i]) < StrToInt(nonces[j])

\* C7: the request of a private call carries key, signature and nonce; key is
\* the API key, and signature is the upper-case hex digest, keyed by the
\* secret, of the nonce of that same request followed by client_id and api_key.
C7_PrivateRequestIsSigned ==
    (request # NoRequest /\ endpoint.private) =>
        /\ {"key", "signature", "nonce"} \subseteq DOMAIN request.params
        /\ request.params["key"] = api_key
        /\ request.params["signature"] =
              Upper(HexDigest(HmacDigest(api_secret,
                      request.params["nonce"] \o client_id \o api_key)))

\* A private request whose caller passed its own nonce and key.
C7_Witness ==
    /\ cpc = "waiting"
    /\ endpoint.private
    /\ "amount" \in DOMAIN request.params
    /\ request.params["nonce"] = GetNonce
    /\ request.params["key"] = api_key

\* ============================ threads issuing private calls concurrently
\* Each thread of Workers runs APIPrivateCall.call with the same credentials;
\* nothing in lines 75-88 takes a lock, so the threads interleave freely
\* between line 79 and the request.

PrivateClasses == {cls \in CallClasses : cls.private}

\* Thread w enters cls.call(prefix_url, **params) and runs line 79:
\* nonce = self._get_nonce().
ThreadGetNonce(w, cls, params) ==
    /\ UNCHANGED <<runVars, notifyVars, callVars>>
    /\ tpc[w] = "idle"
    /\ tcall' = [tcall EXCEPT ![w] = [cls |-> cls, params |-> params]]
    /\ tnonce' = [tnonce EXCEPT ![w] = GetNonce]
    /\ tpc' = [tpc EXCEPT ![w] = "L80"]
    /\ UNCHANGED treq

\* Thread w runs lines 80-88 and lines 49-54: the signature over its local
\* nonce, the merged parameters, and the request on the wire.
ThreadSend(w) ==
    /\ UNCHANGED <<runVars, notifyVars, callVars>>
    /\ tpc[w] = "L80"
    /\ treq' = [treq EXCEPT ![w] =
                    [method |-> tcall[w].cls.method, url |-> tcall[w].cls.url,
                     params |-> PrivateParams(tcall[w].params, tnonce[w])]]
    /\ tpc' = [tpc EXCEPT ![w] = "waiting"]
    /\ UNCHANGED <<tcall, tnonce>>

\* Thread w gets its answer and leaves call() (lines 55-63), by return or by
\* exception; its locals are gone.
ThreadReceive(w) ==
    /\ UNCHANGED <<runVars, notifyVars, callVars>>
    /\ tpc[w] = "waiting"
    /\ tpc' = [tpc EXCEPT ![w] = "idle"]
    /\ tcall' = [tcall EXCEPT ![w] = NoCall]
    /\ tnonce' = [tnonce EXCEPT ![w] = <<>>]
    /\ treq' = [treq EXCEPT ![w] = NoRequest]

NextThreads ==
    \/ Tick
    \/ \E w \in Workers, cls \in PrivateClasses, params \in CallerParams :
            ThreadGetNonce(w, cls, params)
    \/ \E w \in Workers : ThreadSend(w)
    \/ \E w \in Workers : ThreadReceive(w)

SpecThreads == Init /\ [][NextThreads]_vars

\* ---- C11
\* The three interpretations dt is claimed to try, in this order.
IsEpoch(v) == v.tag \in {"int", "str"} /\ IntOf(v).raised = "none"
IsFractional(v) == v.tag = "str" /\ StrptimeFractional(v.val).raised = "none"
IsWhole(v) == v.tag = "str" /\ StrptimeWhole(v.val).raised = "none"

ClaimedInstant(v) ==
    IF IsEpoch(v) THEN JDatetime(IntOf(v).value)
    ELSE IF IsFractional(v) THEN JDatetime(StrptimeFractional(v.val).value)
    ELSE JDatetime(StrptimeWhole(v.val).value)

\* An order-book call has ended on an error-free record with a timestamp.
OrderBookCallEndedOn(ts) ==
    /\ cpc = "idle"
    /\ endpoint = APIOrderBookCall
    /\ response.tag = "dict"
    /\ ~IsAPIError(response)
    /\ "timestamp" \in DOMAIN response.val
    /\ response.val["timestamp"] = ts

\* C11 (as claimed): for every timestamp the exchange sends, a timestamp that
\* matches none of integer epoch, fractional-seconds format and whole-seconds
\* format makes the call fail, and a call that returns carries the instant of
\* the first interpretation that matches, never a default or empty value.
C11_TimestampParsedOrCallFails ==
    \A ts \in Timestamps :
        OrderBookCallEndedOn(ts) =>
            /\ ~(IsEpoch(ts) \/ IsFractional(ts) \/ IsWhole(ts))
                  => result.status = "raised"
            /\ result.status = "returned"
                  => result.value.val["timestamp"] = ClaimedInstant(ts)

\* ---- C12
\* An error-free record that reports a rejection with a nested reason
\* structure: reason.__all__ is a non-empty list.
ReportsRejection(r) ==
    /\ r.tag = "dict"
    /\ ~IsAPIError(r)
    /\ "reason" \in DOMAIN r.val
    /\ r.val["reason"].tag = "dict"
    /\ "__all__" \in DOMAIN r.val["reason"].val
    /\ r.val["reason"].val["__all__"].tag = "list"
    /\ Len(r.val["reason"].val["__all__"].val) > 0

\* C12 (as claimed): when a buy or a sell limit-order call has ended on an
\* error-free body that reports a rejection with a nested reason structure,
\* the call returned and the 'reason' of the normalized response is the first
\* reason of that structure.
C12_ReasonIsFirstReason ==
    (/\ cpc = "idle"
     /\ endpoint \in {APIBuyLimitOrderBTCEURCall, APISellLimitBTCEUROrderCall}
     /\ ReportsRejection(response))
        => /\ result.status = "returned"
           /\ result.value.val["reason"] = response.val["reason"].val["__all__"].val[1]

C14_OrderBookNeedsNoCredentials ==
    (endpoint = APIOrderBookCall) =>
        /\ DOMAIN request.params \cap {"key", "signature", "nonce"} = {}
        /\ request.params = args
        /\ request.method = "get"
        /\ Len(nonces) < calls

\* An order-book call that returned the book, after a private call.
C14_Witness ==
    /\ cpc = "idle"
    /\ endpoint = APIOrderBookCall
    /\ result.status = "returned"
    /\ request.params = EmptyDict
    /\ Len(nonces) = 1

\* ---- C15
\* C15 (as claimed): two requests of private calls that are on the wire at the
\* same time, issued by two threads with the same credentials, never carry
\* the same nonce.
C15_ConcurrentNoncesDiffer ==
    \A w1, w2 \in Workers :
        (w1 # w2 /\ tpc[w1] = "waiting" /\ tpc[w2] = "waiting")
            => treq[w1].params["nonce"] # treq[w2].params["nonce"]

\* ---- C16
\* A call has been started and has ended.
CallEnded == cpc = "idle" /\ calls > 0

\* C16 (as claimed): a call issues exactly one HTTP request, and the hook is
\* invoked exactly once when the call returned and not at all when it raised.
C16_HookNeverRunsOnFailure ==
    /\ calls > 0 => sent = 1
    /\ CallEnded =>
          /\ result.status = "returned" => Len(processed) = 1
          /\ result.status = "raised" => Len(processed) = 0

\* C16 (amended): a call issues exactly one HTTP request; the hook is invoked
\* exactly once, on the decoded body, when the call returned; not at all when
\* the call raised a transport failure or APIError; and exactly once, the
\* invocation that raised, when the call failed inside the hook.
C16_OneRequestOneHookInvocation ==
    /\ calls > 0 => sent = 1
    /\ CallEnded =>
          /\ result.status = "returned" => processed = <<response>>
          /\ (result.status = "raised"
                /\ (transport \in TransportFailures \/ IsAPIError(response)))
                => processed = <<>>
          /\ (result.status = "raised"
                /\ transport = "ok" /\ ~IsAPIError(response))
                => processed = <<response>>

\* An order-book call whose hook raised on an unparsable timestamp.
C16_Witness ==
    /\ CallEnded
    /\ endpoint = APIOrderBookCall
    /\ transport = "ok"
    /\ result = Raised("ValueError", None)
    /\ processed = <<response>>
    /\ sent = 1

\* ---- C17
\* str(d) of a non-negative Decimal with exponent <= 0: the digits of the
\* coefficient, zero-padded, with the point -exp places from the right.
RECURSIVE ZeroPadded(_, _)
ZeroPadded(s, n) == IF Len(s) >= n THEN s ELSE ZeroPadded(<<"0">> \o s, n)

StrOfDecimal(d) ==
    LET digits == ZeroPadded(IntToStr(d.val.coeff), 1 - d.val.exp)
        whole  == Len(digits) + d.val.exp
    IN  IF d.val.exp = 0 THEN digits
        ELSE SubSeq(digits, 1, whole) \o <<".">> \o SubSeq(digits, whole + 1, Len(digits))

\* C17: when an order-book call returned, each of bids and asks has as many
\* entries as the raw list has rows, in the same order, and the i-th entry is
\* exactly {price, amount} with the decimals that the first and second string
\* of the i-th raw row denote (each decimal prints back as that string).
C17_OrderBookKeepsRows ==
    (CallEnded /\ endpoint = APIOrderBookCall /\ result.status = "returned") =>
        \A side \in {"bids", "asks"} :
            /\ Len(result.value.val[side].val) = Len(response.val[side].val)
            /\ \A i \in 1..Len(response.val[side].val) :
                  /\ DOMAIN result.value.val[side].val[i].val = {"price", "amount"}
                  /\ result.value.val[side].val[i].val["price"]
                        = DecimalOfString(response.val[side].val[i].val[1].val).value
                  /\ result.value.val[side].val[i].val["amount"]
                        = DecimalOfString(response.val[side].val[i].val[2].val).value
                  /\ StrOfDecimal(result.value.val[side].val[i].val["price"])
                        = response.val[side].val[i].val[1].val
                  /\ StrOfDecimal(result.value.val[side].val[i].val["amount"])
                        = response.val[side].val[i].val[2].val

\* The book with two bids came back with both, in order: 100.5 x 2.0, 99 x 3.
C17_Witness ==
    /\ CallEnded
    /\ endpoint = APIOrderBookCall
    /\ result.status = "returned"
    /\ response = OrderBook(TsEpoch, BookTwoBids)
    /\ result.value.val["bids"].val[1].val["price"] = JDecimal(0, 1005, -1)
    /\ result.value.val["bids"].val[1].val["amount"] = JDecimal(0, 20, -1)
    /\ result.value.val["bids"].val[2].val["price"] = JDecimal(0, 99, 0)
    /\ result.value.val["asks"].val = <<>>

\* ---- C18
\* Thread w is between the acquire of line 43 and the release of line 53.
HoldsLock(w) == npc[w] \notin {"idle", "L43"}

\* C18: the lock is held exactly while some thread is between acquire and
\* release; in particular, when no thread is inside notify the lock is free,
\* whatever way the deliveries ended, and a thread that has left notify by
\* return or by exception does not hold it.
C18_LockFreeOutsideNotify ==
    /\ lock <=> (\E w \in Workers : HoldsLock(w))
    /\ (\A w \in Workers : npc[w] = "idle") => ~lock

\* After a delivery that ended by raising, another thread has acquired the
\* lock.
C18_Witness ==
    \E w1, w2 \in Workers :
        /\ npc[w1] = "idle"
        /\ outcome[w1].status = "raised"
        /\ npc[w2] = "L46"
        /\ lock

\* ---- C19
Generated == {"key", "signature", "nonce"}

\* C19: the request of a private call carries the caller's parameters and the
\* three generated names, nothing else; every caller parameter under another
\* name has the caller's value; and key, signature and nonce have the values
\* the executor generated for this call, also when the caller passed
\* parameters of those names.
C19_CallerParamsKept ==
    (request # NoRequest /\ endpoint.private) =>
        /\ DOMAIN request.params = DOMAIN args \cup Generated
        /\ \A k \in DOMAIN args \ Generated : request.params[k] = args[k]
        /\ Len(nonces) > 0
        /\ request.params["nonce"] = nonces[Len(nonces)]
        /\ request.params["key"] = api_key
        /\ request.params["signature"] = Signature(nonces[Len(nonces)])

\* A private request whose caller passed amount, and a nonce and a key of its
\* own that did not survive.
C19_Witness ==
    /\ cpc = "waiting"
    /\ endpoint.private
    /\ {"amount", "nonce", "key"} \subseteq DOMAIN args
    /\ request.params["amount"] = args["amount"]
    /\ request.params["nonce"] # args["nonce"]
    /\ request.params["key"] # args["key"]

====
